---- MODULE Spec2Model ----
(***************************************************************************)
(* A model of manifestly (src/src/manifestly/core.py): a source Manifest   *)
(* S over a source tree, a target Manifest T over a target tree, and the   *)
(* operations load, save, refresh/generate, diff, changed, pzip and sync   *)
(* (specification Spec); and a directory on its own, with an ignore file   *)
(* and a manifest file of any name, for generate, refresh, changed and     *)
(* the methods of ManifestlyIgnore (specification SceneSpec).              *)
(*                                                                         *)
(* Strings are sequences of one-character strings, so that the string      *)
(* arithmetic of the code (split('/'), lstrip('/'), slicing by             *)
(* len(root_path), f'{root}/{file}', fnmatch) is modelled as written.      *)
(* A directory tree is a function from relative path to a node: NONE,      *)
(* DIR or the content of a regular file.  The two trees of Spec hold no    *)
(* ignore file: T's ignore patterns are those its ManifestlyIgnore object  *)
(* was built with.  T's backing file is <root>/MANIFEST_NAME, inside the   *)
(* target tree; S's backing file lies outside both trees and is never      *)
(* read by the operations below.                                           *)
(***************************************************************************)
EXTENDS Integers, Sequences, FiniteSets, TLC

\* Bound on the number of modifications made from outside the program.
MaxEnvOps == 2

-----------------------------------------------------------------------------
(* Strings *)

SLASH == "/"
BACKSLASH == "\\"
STAR == "*"
QMARK == "?"
LBRACKET == "["
RBRACKET == "]"
BANG == "!"
HYPHEN == "-"

\* str.split(sep) for a one-character separator: the segments, empty ones kept.
RECURSIVE SplitAcc(_, _, _)
SplitAcc(s, sep, cur) ==
  IF s = <<>> THEN <<cur>>
  ELSE IF Head(s) = sep THEN <<cur>> \o SplitAcc(Tail(s), sep, <<>>)
  ELSE SplitAcc(Tail(s), sep, Append(cur, Head(s)))

Split(s, sep) == SplitAcc(s, sep, <<>>)

\* str.lstrip(ch), str.rstrip(ch), str.strip(ch)
RECURSIVE LStrip(_, _)
LStrip(s, ch) == IF s # <<>> /\ Head(s) = ch THEN LStrip(Tail(s), ch) ELSE s

RECURSIVE RStrip(_, _)
RStrip(s, ch) ==
  IF s # <<>> /\ s[Len(s)] = ch THEN RStrip(SubSeq(s, 1, Len(s) - 1), ch) ELSE s

Strip(s, ch) == RStrip(LStrip(s, ch), ch)

\* s[n:]
Slice(s, n) == SubSeq(s, n + 1, Len(s))

\* f'{a}/{b}'
Join(a, b) == a \o <<SLASH>> \o b

\* ManifestlyIgnore.normalize_path: path.replace('\\', '/')
normalize_path(path) ==
  [i \in 1..Len(path) |-> IF path[i] = BACKSLASH THEN SLASH ELSE path[i]]

\* The printable characters in code point order (the grave accent left
\* out), for the ranges of a character class.
Alphabet ==
  <<" ", "!", "\"", "#", "$", "%", "&", "'", "(", ")", "*", "+",
     ",", "-", ".", "/", "0", "1", "2", "3", "4", "5", "6", "7",
     "8", "9", ":", ";", "<", "=", ">", "?", "@", "A", "B", "C",
     "D", "E", "F", "G", "H", "I", "J", "K", "L", "M", "N", "O",
     "P", "Q", "R", "S", "T", "U", "V", "W", "X", "Y", "Z", "[",
     "\\", "]", "^", "_", "a", "b", "c", "d", "e", "f", "g",
     "h", "i", "j", "k", "l", "m", "n", "o", "p", "q", "r", "s",
     "t", "u", "v", "w", "x", "y", "z", "{", "|", "}", "~">>

Ord(c) == CHOOSE i \in 1..Len(Alphabet) : Alphabet[i] = c

\* fnmatch.translate on a pattern that starts with '[': the index of the
\* ']' that closes the character class, 0 when there is none (the '[' is
\* then a literal).  A '!' right after the '[' negates, and a ']' met
\* before any other character stands for itself.
ClassEnd(pat) ==
  LET j1 == IF Len(pat) >= 2 /\ pat[2] = BANG THEN 3 ELSE 2
      j2 == IF Len(pat) >= j1 /\ pat[j1] = RBRACKET THEN j1 + 1 ELSE j1
      closes == {j \in j2..Len(pat) : pat[j] = RBRACKET}
  IN IF closes = {} THEN 0 ELSE CHOOSE j \in closes : \A k \in closes : j <= k

\* What stands between the brackets, after the '!': single characters and
\* ranges lo-hi; a '-' that is first or last stands for itself.
RECURSIVE InClassBody(_, _)
InClassBody(c, body) ==
  IF body = <<>> THEN FALSE
  ELSE IF Len(body) >= 3 /\ body[2] = HYPHEN
    THEN \/ Ord(body[1]) <= Ord(c) /\ Ord(c) <= Ord(body[3])
         \/ InClassBody(c, SubSeq(body, 4, Len(body)))
  ELSE c = Head(body) \/ InClassBody(c, Tail(body))

InClass(c, stuff) ==
  IF Head(stuff) = BANG THEN ~InClassBody(c, Tail(stuff)) ELSE InClassBody(c, stuff)

\* fnmatch.fnmatch(name, pat) on a POSIX host: * takes any run of
\* characters, ? one character, [seq] and [!seq] one character in or not
\* in seq, any other character itself.
RECURSIVE fnmatch(_, _)
fnmatch(name, pat) ==
  IF pat = <<>> THEN name = <<>>
  ELSE IF Head(pat) = STAR
    THEN fnmatch(name, Tail(pat)) \/ (name # <<>> /\ fnmatch(Tail(name), pat))
  ELSE IF name = <<>> THEN FALSE
  ELSE IF Head(pat) = LBRACKET /\ ClassEnd(pat) # 0
    THEN /\ InClass(Head(name), SubSeq(pat, 2, ClassEnd(pat) - 1))
         /\ fnmatch(Tail(name), SubSeq(pat, ClassEnd(pat) + 1, Len(pat)))
  ELSE (Head(pat) = QMARK \/ Head(pat) = Head(name)) /\ fnmatch(Tail(name), Tail(pat))

\* The index of the last ch of s, 0 when there is none.
RECURSIVE LastIndex(_, _)
LastIndex(s, ch) ==
  IF s = <<>> THEN 0
  ELSE IF s[Len(s)] = ch THEN Len(s)
  ELSE LastIndex(SubSeq(s, 1, Len(s) - 1), ch)

\* fs._parent(path) of the local file system: path.rsplit('/', 1)[0] or '/'
fs_parent(path) ==
  LET i == LastIndex(path, SLASH)
      head == IF i = 0 THEN path ELSE SubSeq(path, 1, i - 1)
  IN IF head = <<>> THEN <<SLASH>> ELSE head

-----------------------------------------------------------------------------
(* Settings, paths and file contents *)

\* settings.MANIFEST_NAME ('.manifestly.json'), written with one character.
MANIFEST_NAME == <<"m">>
\* settings.DEFAULT_HASH_ALGORITHM
DEFAULT_HASH_ALGORITHM == "sha256"
\* settings.MANIFESTLY_IGNORE ('.manifestlyignore'), written with its dot,
\* which decides its place in a sorted walk, and one character.
MANIFESTLY_IGNORE == <<".", "i">>

\* The relative paths of the data files of a tree, in the order fs.find
\* lists them (sorted): a, d, d/a.
PathOrder == << <<"a">>, <<"d">>, <<"d", "/", "a">> >>
RelPaths == {PathOrder[i] : i \in 1..Len(PathOrder)}

NONE == "none"
DIR == "dir"
Contents == {"x", "y"}
\* What a step from outside leaves at a path: nothing (unlink), or a file
\* (write_text).
Writes == {NONE} \cup Contents

\* The root of the source tree, and the roots the target tree may have.
SrcRoot == <<"/", "s">>
TgtRoots == { <<"/", "t">>, <<"/", "d", "/", "t">> }


\* The targets considered: a root and the lines of the ignore file.
Targets ==
  { [root |-> <<"/", "t">>, lines |-> <<>>],
    [root |-> <<"/", "t">>, lines |-> << <<"d">> >>],
    [root |-> <<"/", "d", "/", "t">>, lines |-> << <<"d">> >>] }

\* q is a proper ancestor directory of p.
IsAncestor(q, p) == Len(q) < Len(p) /\ SubSeq(p, 1, Len(q) + 1) = q \o <<SLASH>>

EmptyTree == [p \in RelPaths |-> NONE]

\* The files the tests copy under both roots before they start: a and d/a.
SeedTree ==
  [p \in RelPaths |->
     IF p = <<"d">> THEN DIR ELSE "x"]

\* Trees the file system can hold: what lies under a path is under a directory.
TreeOK(tree) ==
  \A p, q \in RelPaths : IsAncestor(q, p) /\ tree[p] # NONE => tree[q] = DIR

-----------------------------------------------------------------------------
(* The file system, as the code reaches it through absolute paths *)

\* The relative path of an absolute path under root.
RelOf(root, abs) == Slice(abs, Len(root) + 1)

\* The node at an absolute path of the tree rooted at root.
NodeAt(root, tree, abs) ==
  LET rel == RelOf(root, abs)
  IN IF rel \in DOMAIN tree /\ SubSeq(abs, 1, Len(root) + 1) = root \o <<SLASH>>
       THEN tree[rel] ELSE NONE

\* fs.exists(path): true of files and of directories.
fs_exists(root, tree, abs) == abs = root \/ NodeAt(root, tree, abs) # NONE


\* fs.find(path): every regular file under the root; backing is the
\* manifest file kept in the tree's root (exists = FALSE when there is none).
fs_find(root, tree, backing) ==
  {Join(root, p) : p \in {q \in DOMAIN tree : tree[q] \notin {NONE, DIR}}}
    \cup (IF backing.exists THEN {Join(root, MANIFEST_NAME)} ELSE {})

\* The bytes of a manifest file, as a file content: the text written,
\* taken as one string, so that two manifest files have the same digest
\* exactly when the same text was written to them.
Bytes(text) == ToString(text)

\* The bytes fs.open(path).read() yields for a file fs.find listed.
ReadFile(root, tree, backing, abs) ==
  IF abs = Join(root, MANIFEST_NAME) THEN Bytes(backing.text)
  ELSE NodeAt(root, tree, abs)

\* fs.mkdirs(path, exist_ok=True) below the root: ok is FALSE when a path
\* component is a regular file (os.makedirs raises FileExistsError).
RECURSIVE fs_mkdirs(_, _, _)
fs_mkdirs(root, tree, abs) ==
  IF abs = root \/ RelOf(root, abs) \notin DOMAIN tree THEN [ok |-> TRUE, tree |-> tree]
  ELSE LET up == fs_mkdirs(root, tree, fs_parent(abs))
           rel == RelOf(root, abs)
       IN IF ~up.ok THEN up
          ELSE IF up.tree[rel] = DIR THEN up
          ELSE IF up.tree[rel] = NONE
            THEN [ok |-> TRUE, tree |-> [up.tree EXCEPT ![rel] = DIR]]
          ELSE [ok |-> FALSE, tree |-> up.tree]

\* Manifest.calculate_hash: the digest of a content under an algorithm.
calculate_hash(content, algorithm) == <<algorithm, content>>

-----------------------------------------------------------------------------
(* ManifestlyIgnore *)

\* ManifestlyIgnore.load_ignore_patterns for the lines of an ignore file.
load_ignore_patterns(lines) ==
  <<MANIFEST_NAME>> \o [i \in 1..Len(lines) |-> normalize_path(lines[i])]

\* should_ignore that matches a pattern against the whole path, not
\* against each of its parts.
ShouldIgnoreWholePath(patterns, file_path) ==
  \E i \in 1..Len(patterns) :
    fnmatch(normalize_path(file_path), Strip(patterns[i], SLASH))

\* ManifestlyIgnore.should_ignore(file_path) under the patterns held.
should_ignore(patterns, file_path) ==
  LET parts == Split(normalize_path(file_path), SLASH)
  IN \E i \in 1..Len(patterns) : \E j \in 1..Len(parts) :
       fnmatch(parts[j], Strip(patterns[i], SLASH))

\* ManifestlyIgnore.add_ignore_pattern(name) for a string name.
add_ignore_pattern(patterns, name) ==
  IF \E i \in 1..Len(patterns) : patterns[i] = name
    THEN patterns
    ELSE Append(patterns, normalize_path(name))

-----------------------------------------------------------------------------
(* In-memory manifests and their serialisation *)

\* What json.loads can hand to Manifest.manifest: a dict (path to digest),
\* or a JSON value that is no dict (the empty list, null).
Dict(map) == [kind |-> "dict", map |-> map]
EmptyMap == [p \in {} |-> <<>>]
EmptyDict == Dict(EmptyMap)
ListValue == [kind |-> "list", map |-> EmptyMap]
NullValue == [kind |-> "null", map |-> EmptyMap]
IsDict(v) == v.kind = "dict"

\* s <= t as Python compares strings: by code point, a prefix first.
RECURSIVE StrLeq(_, _)
StrLeq(s, t) ==
  IF s = <<>> THEN TRUE
  ELSE IF t = <<>> THEN FALSE
  ELSE IF Head(s) = Head(t) THEN StrLeq(Tail(s), Tail(t))
  ELSE Ord(Head(s)) < Ord(Head(t))

\* sorted(S) for a set of strings.
RECURSIVE Sorted(_)
Sorted(S) ==
  IF S = {} THEN <<>>
  ELSE LET x == CHOOSE y \in S : \A z \in S : StrLeq(y, z)
       IN <<x>> \o Sorted(S \ {x})

\* The keys of a mapping in iteration order.  A dict keeps the order its
\* keys were inserted in, which a mapping does not carry: every manifest
\* here was filled by generate in the order of fs.find, which is sorted,
\* or read from a text written in that order, and diff keeps the order of
\* the manifest it iterates over; so the order is the sorted one.
KeysInOrder(map) == Sorted(DOMAIN map)

\* A text is a sequence of tokens.
TokLBrace == <<"{">>
TokRBrace == <<"}">>
TokLBracket == <<"[">>
TokRBracket == <<"]">>
TokNull == <<"null">>
TokMember(key, digest) == <<"member", key, digest>>
IsMember(tok) == Len(tok) = 3 /\ tok[1] = "member"

EmptyText == <<>>
BadJsonText == << <<"bad">>, <<"json">> >>
ListText == <<TokLBracket, TokRBracket>>
NullText == <<TokNull>>

\* json.dump(manifest, f, indent=2)
json_dump(v) ==
  IF v.kind = "list" THEN ListText
  ELSE IF v.kind = "null" THEN NullText
  ELSE LET keys == KeysInOrder(v.map)
       IN <<TokLBrace>> \o [i \in 1..Len(keys) |-> TokMember(keys[i], v.map[keys[i]])]
            \o <<TokRBrace>>

\* json.loads(data): ok is FALSE for JSONDecodeError.  A repeated member
\* name keeps its last value.
json_loads(text) ==
  IF text = ListText THEN [ok |-> TRUE, value |-> ListValue]
  ELSE IF text = NullText THEN [ok |-> TRUE, value |-> NullValue]
  ELSE IF /\ Len(text) >= 2
          /\ text[1] = TokLBrace
          /\ text[Len(text)] = TokRBrace
          /\ \A i \in 2..(Len(text) - 1) : IsMember(text[i])
    THEN LET idx == 2..(Len(text) - 1)
             keys == {text[i][2] : i \in idx}
             last(k) == CHOOSE i \in idx :
                          text[i][2] = k /\ \A j \in idx : text[j][2] = k => j <= i
         IN [ok |-> TRUE, value |-> Dict([k \in keys |-> text[last(k)][3]])]
  ELSE [ok |-> FALSE, value |-> EmptyDict]

\* A backing file: absent, or a text.
Absent == [exists |-> FALSE, text |-> EmptyText]
FileOf(text) == [exists |-> TRUE, text |-> text]

-----------------------------------------------------------------------------
(* Manifest: load, save, generate, diff *)

\* save that writes the empty object whatever the manifest holds.
SaveEmptyObject(manifest) == FileOf(json_dump(EmptyDict))

\* Manifest.save: the backing file after json.dump of the manifest.
save(manifest) == FileOf(json_dump(manifest))

\* load without the save that follows a missing file.
LoadWithoutSave(backing) ==
  IF ~backing.exists
    THEN [manifest |-> EmptyDict, file |-> backing]
  ELSE IF backing.text = EmptyText
    THEN [manifest |-> EmptyDict, file |-> backing]
  ELSE LET r == json_loads(backing.text)
       IN IF r.ok THEN [manifest |-> r.value, file |-> backing]
          ELSE [manifest |-> EmptyDict, file |-> backing]

\* Manifest.load on a backing file path: the manifest read and the backing
\* file afterwards.  A missing file gives the empty manifest and saves it;
\* empty data and undecodable data give the empty manifest; anything
\* json.loads accepts is kept as it is.
load(backing) ==
  IF ~backing.exists
    THEN [manifest |-> EmptyDict, file |-> save(EmptyDict)]
  ELSE IF backing.text = EmptyText
    THEN [manifest |-> EmptyDict, file |-> backing]
  ELSE LET r == json_loads(backing.text)
       IN IF r.ok THEN [manifest |-> r.value, file |-> backing]
          ELSE [manifest |-> EmptyDict, file |-> backing]

\* The file name generate takes from a manifest file path:
\* path.split('/')[-1].split('\\')[-1]
OutputBasename(path) ==
  LET a == Split(path, SLASH)
      b == Split(a[Len(a)], BACKSLASH)
  IN b[Len(b)]

\* The key generate records for a listed file:
\* file_path[len(root_path):].lstrip('/')
relative_path(file_path, root_path) == LStrip(Slice(file_path, Len(root_path)), SLASH)

\* Manifest.generate(directory, manifest_file, root_path, hash_algorithm,
\* ignore) over a tree: the patterns after the two add_ignore_pattern
\* calls and the mapping recorded.  hasOutput says whether a manifest_file
\* was given, output is its path.
generate(directory, tree, backing, hasOutput, output, root_path, algorithm, patterns) ==
  LET p1 == add_ignore_pattern(patterns, MANIFEST_NAME)
      p2 == IF hasOutput THEN add_ignore_pattern(p1, OutputBasename(output)) ELSE p1
      kept == {f \in fs_find(directory, tree, backing) : ~should_ignore(p2, f)}
      keys == {relative_path(f, root_path) : f \in kept}
      fileOf(k) == CHOOSE f \in kept : relative_path(f, root_path) = k
  IN [patterns |-> p2,
      map |-> [k \in keys |->
                 calculate_hash(ReadFile(directory, tree, backing, fileOf(k)), algorithm)]]

\* The three mappings Manifest.diff builds.
NoDiff == [added |-> EmptyMap, removed |-> EmptyMap, changed |-> EmptyMap]

\* diff that reports every path of both manifests as changed, whether or
\* not the digests differ.
DiffWithoutDigestTest(source, target) ==
  [added |-> [f \in {k \in DOMAIN source : k \notin DOMAIN target} |-> source[f]],
   changed |-> [f \in {k \in DOMAIN source : k \in DOMAIN target} |-> source[f]],
   removed |-> [f \in {k \in DOMAIN target : k \notin DOMAIN source} |-> target[f]]]

\* diff that reports every path of the source as added.
DiffAddsEverything(source, target) ==
  [added |-> [f \in DOMAIN source |-> source[f]],
   changed |-> [f \in {k \in DOMAIN source :
                         k \in DOMAIN target /\ target[k] # source[k]} |-> source[f]],
   removed |-> [f \in {k \in DOMAIN target : k \notin DOMAIN source} |-> target[f]]]

\* Manifest.diff(target_manifest) of two dict manifests: the first loop
\* over the source's items, the second over the target's.
diff(source, target) ==
  [added |-> [f \in {k \in DOMAIN source : k \notin DOMAIN target} |-> source[f]],
   changed |-> [f \in {k \in DOMAIN source :
                         k \in DOMAIN target /\ target[k] # source[k]} |-> source[f]],
   removed |-> [f \in {k \in DOMAIN target : k \notin DOMAIN source} |-> target[f]]]

\* Manifest.changed after its load: recorded is the mapping just read
\* back, the tree is walked under path with the patterns of self.ignore.
\* The first loop opens every recorded path that exists, and raises on a
\* directory; the digests are taken with the default algorithm.
changed(path, tree, backing, recorded, patterns) ==
  LET there == {f \in DOMAIN recorded : fs_exists(path, tree, Join(path, f))}
      now(f) == calculate_hash(ReadFile(path, tree, backing, Join(path, f)),
                               DEFAULT_HASH_ALGORITHM)
      kept == {f \in fs_find(path, tree, backing) : ~should_ignore(patterns, f)}
      new == {relative_path(f, path) : f \in kept} \ DOMAIN recorded
      fileOf(k) == CHOOSE f \in kept : relative_path(f, path) = k
  IN IF \E f \in there : NodeAt(path, tree, Join(path, f)) = DIR
       THEN [raised |-> TRUE, changes |-> NoDiff]
       ELSE [raised |-> FALSE,
             changes |->
               [added |-> [k \in new |->
                             calculate_hash(ReadFile(path, tree, backing, fileOf(k)),
                                            DEFAULT_HASH_ALGORITHM)],
                removed |-> [f \in DOMAIN recorded \ there |-> recorded[f]],
                changed |-> [f \in {g \in there : recorded[g] # now(g)} |-> now(f)]]]

-----------------------------------------------------------------------------
(* Manifest.pzip *)

\* An output archive: whether the file is at the output location, whether
\* its central directory was written (it opens as a zip), and its members.
NoArchive == [exists |-> FALSE, finalized |-> FALSE, members |-> EmptyMap]

\* The file '.manifestly.diff' of the working directory and the document
\* written to it.
NoSidecar == [exists |-> FALSE, doc |-> NoDiff]

\* The loop of pzip over the added and changed paths in order: each is
\* opened under the source root and written as a member under its
\* relative path; a path that cannot be opened ends the loop.
RECURSIVE ZipLoop(_, _, _)
ZipLoop(st, files, srcTree) ==
  IF files = <<>> \/ st.raised THEN st
  ELSE LET file == Head(files)
           node == NodeAt(SrcRoot, srcTree, Join(SrcRoot, file))
       IN IF node \in Contents
            THEN ZipLoop([st EXCEPT !.members = [k \in DOMAIN @ \cup {file} |->
                                                   IF k = file THEN node ELSE @[k]]],
                         Tail(files), srcTree)
            ELSE [st EXCEPT !.raised = TRUE]

\* Manifest.pzip after the diff: the archive left at the output location,
\* the file '.manifestly.diff' written beside it, and whether the call
\* raised.  ZipFile closes, and so finalizes, the archive on the way out
\* of the with block, exception or not.
pzip(d, srcTree) ==
  LET run == ZipLoop([raised |-> FALSE, members |-> EmptyMap],
                     KeysInOrder(d.added) \o KeysInOrder(d.changed), srcTree)
  IN [raised |-> run.raised,
      archive |-> [exists |-> TRUE, finalized |-> TRUE, members |-> run.members],
      sidecar |-> IF run.raised THEN NoSidecar ELSE [exists |-> TRUE, doc |-> d]]

-----------------------------------------------------------------------------
(* Manifest.sync: the two loops *)

\* The state the loops carry: the target tree, whether an exception has
\* left the call, and which paths each branch handled.
SyncStart(tree) ==
  [tree |-> tree, raised |-> FALSE, processed |-> {}, skipped |-> {},
   copied |-> {}, deleted |-> {}]

\* CopyStep whose copy also removes every other file of the target tree.
CopyStepClearsOthers(st, file, srcTree, tgtRoot, dry) ==
  LET source_file == Join(SrcRoot, file)
      target_file == Join(tgtRoot, file)
      mk == fs_mkdirs(tgtRoot, st.tree, fs_parent(target_file))
      seen == [st EXCEPT !.processed = @ \cup {file}, !.tree = mk.tree]
  IN IF ~mk.ok THEN [seen EXCEPT !.raised = TRUE]
     ELSE IF ~fs_exists(SrcRoot, srcTree, source_file)
       THEN [seen EXCEPT !.skipped = @ \cup {file}]
     ELSE IF dry THEN seen
     ELSE [seen EXCEPT
             !.tree = [q \in DOMAIN mk.tree |->
                         IF q = file THEN NodeAt(SrcRoot, srcTree, source_file)
                         ELSE IF mk.tree[q] = DIR THEN DIR ELSE NONE],
             !.copied = @ \cup {file}]

\* One iteration of the first loop (an added or changed path).
CopyStep(st, file, srcTree, tgtRoot, dry) ==
  LET source_file == Join(SrcRoot, file)
      target_file == Join(tgtRoot, file)
      mk == fs_mkdirs(tgtRoot, st.tree, fs_parent(target_file))
      seen == [st EXCEPT !.processed = @ \cup {file}, !.tree = mk.tree]
  IN IF ~mk.ok THEN [seen EXCEPT !.raised = TRUE]
     ELSE IF ~fs_exists(SrcRoot, srcTree, source_file)
       THEN [seen EXCEPT !.skipped = @ \cup {file}]
     ELSE IF dry THEN seen
     ELSE IF NodeAt(SrcRoot, srcTree, source_file) = DIR
       THEN [seen EXCEPT !.raised = TRUE]
     ELSE IF NodeAt(tgtRoot, mk.tree, target_file) = DIR
       THEN [seen EXCEPT !.raised = TRUE]
     ELSE [seen EXCEPT !.tree[file] = NodeAt(SrcRoot, srcTree, source_file),
                       !.copied = @ \cup {file}]

\* One iteration of the second loop (a removed path).
RemoveStep(st, file, tgtRoot, dry) ==
  LET target_file == Join(tgtRoot, file)
      seen == [st EXCEPT !.processed = @ \cup {file}]
  IN IF ~fs_exists(tgtRoot, st.tree, target_file) THEN seen
     ELSE IF dry THEN seen
     ELSE IF NodeAt(tgtRoot, st.tree, target_file) = DIR
       THEN [seen EXCEPT !.raised = TRUE]
     ELSE [seen EXCEPT !.tree[file] = NONE, !.deleted = @ \cup {file}]

\* The first loop over the files in order; an exception ends the call.
RECURSIVE CopyLoop(_, _, _, _, _)
CopyLoop(st, files, srcTree, tgtRoot, dry) ==
  IF files = <<>> \/ st.raised THEN st
  ELSE CopyLoop(CopyStep(st, Head(files), srcTree, tgtRoot, dry),
                Tail(files), srcTree, tgtRoot, dry)

\* The second loop.
RECURSIVE RemoveLoop(_, _, _, _)
RemoveLoop(st, files, tgtRoot, dry) ==
  IF files = <<>> \/ st.raised THEN st
  ELSE RemoveLoop(RemoveStep(st, Head(files), tgtRoot, dry), Tail(files), tgtRoot, dry)

\* Both loops of sync for a computed diff.
SyncLoops(d, srcTree, tgtRoot, tgtTree, dry) ==
  LET copies == KeysInOrder(d.added) \o KeysInOrder(d.changed)
      afterCopies == CopyLoop(SyncStart(tgtTree), copies, srcTree, tgtRoot, dry)
  IN RemoveLoop(afterCopies, KeysInOrder(d.removed), tgtRoot, dry)

-----------------------------------------------------------------------------
(* State *)

VARIABLES
  srcTree,      \* the source tree: relative path -> node
  tgtTree,      \* the target tree
  srcManifest,  \* S.manifest
  tgtManifest,  \* T.manifest
  tgtFile,      \* T's backing file, <tgtRoot>/MANIFEST_NAME
  tgtIgnore,    \* T.ignore.ignore_patterns
  tgtRoot,      \* T.root
  envOps,       \* modifications made from outside so far
  last,         \* the last call: its arguments, outcome and the state before it
  scene         \* a directory on its own and the calls made on it (SceneSpec)

vars == <<srcTree, tgtTree, srcManifest, tgtManifest, tgtFile, tgtIgnore, tgtRoot,
          envOps, last, scene>>

\* The record of a step made from outside the program.  For a call, the
\* fields hold: its arguments (dry, byPath), whether it raised, the state
\* before it (srcTree0, tgtTree0, srcManifest0, tgtFile0), the target
\* manifest it worked on (used), the diff it computed, what the loops of
\* sync did, the mapping a generate returned (result), and what links a
\* call to the one before it (afterSave with the manifest saved and the
\* backing file the save replaced, afterSync, afterDiff with the diff
\* T.diff(S) returned in back).  inMemory and ignore0 are the manifest and
\* the patterns T held before the call; object and objectIgnore are the
\* manifest and the patterns, after the call, of the Manifest the call
\* worked on: T itself, or the Manifest(path) it built and, for sync,
\* returns.  For changed: the mapping returned (changes); for pzip: the
\* archive and the file '.manifestly.diff' it left; for patch: the patch
\* file it wrote.
BlankLast ==
  [op |-> "env", dry |-> FALSE, byPath |-> FALSE, raised |-> FALSE,
   srcTree0 |-> EmptyTree, tgtTree0 |-> EmptyTree,
   srcManifest0 |-> EmptyDict, tgtFile0 |-> Absent,
   used |-> EmptyDict, diff |-> NoDiff,
   processed |-> {}, skipped |-> {}, copied |-> {}, deleted |-> {},
   planned |-> {}, result |-> EmptyMap,
   afterSave |-> FALSE, saved |-> EmptyDict, afterSync |-> FALSE,
   afterDiff |-> FALSE, back |-> NoDiff, savedOver |-> Absent,
   inMemory |-> EmptyDict, ignore0 |-> <<>>,
   object |-> EmptyDict, objectIgnore |-> <<>>, changes |-> NoDiff,
   archive |-> NoArchive, sidecar |-> NoSidecar, patchFile |-> NoSidecar]

\* No call is being looked at: the caller has dropped the last record.
Idle == last.op = "env"

\* The record of a call op made in the current state.
Called(op) == [BlankLast EXCEPT !.op = op]

\* The record of a call that reads both trees and both manifests.
CalledOnAll(op) ==
  [BlankLast EXCEPT !.op = op,
                    !.srcTree0 = srcTree, !.tgtTree0 = tgtTree,
                    !.srcManifest0 = srcManifest, !.tgtFile0 = tgtFile,
                    !.inMemory = tgtManifest, !.ignore0 = tgtIgnore]

-----------------------------------------------------------------------------
(* A directory on its own: generate, refresh and changed with an ignore   *)
(* file in the tree and a manifest file of any name; ManifestlyIgnore on   *)
(* its own.                                                                 *)

\* The pattern and the paths of the ignore examples, character by character.
BUILD == <<"b", "u", "i", "l", "d">>
BUILD_OUTPUT_TXT == <<"b", "u", "i", "l", "d", "/", "o", "u", "t", "p", "u", "t", ".", "t", "x", "t">>
SRC_BUILD_X_TXT == <<"s", "r", "c", "/", "b", "u", "i", "l", "d", "/", "x", ".", "t", "x", "t">>
BUILDINGS_X_TXT == <<"b", "u", "i", "l", "d", "i", "n", "g", "s", "/", "x", ".", "t", "x", "t">>
SRC_BUILD_X_TXT_WIN == <<"s", "r", "c", "\\", "b", "u", "i", "l", "d", "\\", "x", ".", "t", "x", "t">>

\* Manifest file names other than MANIFEST_NAME: a plain one, and one that
\* reads as a character class when taken as a pattern.
OTHER_NAME == <<"o">>
BRACKET_NAME == <<LBRACKET, "o", RBRACKET>>
OtherNames == {OTHER_NAME, BRACKET_NAME}

\* The relative paths of a directory on its own: the data files, the
\* ignore file and a manifest file of another name than MANIFEST_NAME.
ScenePaths == RelPaths \cup {MANIFESTLY_IGNORE} \cup OtherNames

\* hashlib algorithms a manifest may be generated with.
Algorithms == {DEFAULT_HASH_ALGORITHM, "md5"}

\* f.read().splitlines() of an ignore file: the files here hold one line,
\* the text itself.
splitlines(text) == << <<text>> >>

\* The texts an ignore file may hold.
IgnoreTexts == {"d", "a"}

\* The data files a directory may start with.
SceneData ==
  { SeedTree,
    [p \in RelPaths |-> IF p = <<"a">> THEN "x" ELSE NONE],
    [p \in RelPaths |-> IF p = <<"d">> THEN "y" ELSE NONE] }

\* The trees a directory may start with: data files, without an ignore
\* file, with one, or with a directory of that name, and no manifest file
\* yet.
SceneTrees ==
  { [p \in ScenePaths |->
       IF p \in RelPaths THEN data[p]
       ELSE IF p = MANIFESTLY_IGNORE THEN ign ELSE NONE] :
    data \in SceneData, ign \in {NONE, DIR} \cup IgnoreTexts }

\* ManifestlyIgnore(default_ignore_file(directory)): the patterns loaded.
\* A missing ignore file gives the implicit pattern only; an ignore file
\* that is a directory makes the open raise (IsADirectoryError is not the
\* FileNotFoundError load_ignore_patterns catches).
IgnoreOf(tree) ==
  IF tree[MANIFESTLY_IGNORE] = DIR
    THEN [raised |-> TRUE, patterns |-> <<>>]
  ELSE IF tree[MANIFESTLY_IGNORE] = NONE
    THEN [raised |-> FALSE, patterns |-> load_ignore_patterns(<<>>)]
  ELSE [raised |-> FALSE,
        patterns |-> load_ignore_patterns(splitlines(tree[MANIFESTLY_IGNORE]))]

\* The manifest_file argument of generate: none, or a path.
NoOutput == [given |-> FALSE, path |-> <<>>]
OutputsOf(root) ==
  {NoOutput} \cup
  {[given |-> TRUE, path |-> q] :
     q \in {Join(root, MANIFEST_NAME), <<SLASH>> \o OTHER_NAME}
             \cup {Join(root, n) : n \in OtherNames}}

\* The pattern lists a ManifestlyIgnore object may hold after loading an
\* ignore file of these lines.
IgnoreFiles ==
  { <<>>,
    << BUILD >>,
    << <<SLASH>> \o BUILD \o <<SLASH>> >>,
    << <<"b", STAR>> >>,
    << <<QMARK, "u", "i", "l", "d">> >>,
    << <<"x">>, BUILD >>,
    << BUILD, BUILD >>,
    << <<"a", BACKSLASH, "b">> >> }

\* The paths should_ignore is asked about.
AskedPaths ==
  { BUILD_OUTPUT_TXT,
    SRC_BUILD_X_TXT,
    BUILD,
    BUILDINGS_X_TXT,
    SRC_BUILD_X_TXT_WIN,
    <<"a">>,
    <<SLASH, "t", SLASH, "a">> }

\* The names add_ignore_pattern is called with.
AddedNames ==
  { BUILD, MANIFEST_NAME, <<"a", SLASH, "b">>, <<"a", BACKSLASH, "b">> }

\* A directory on its own and the last call made on it.  op says what the
\* record holds: "directory" (a root and its tree, nothing called yet),
\* "generate", "refresh", "changed", "elsewhere" (the same tree generated
\* under another root), or "ignore" (a ManifestlyIgnore object holding
\* patterns), "should_ignore", "add", "addAgain".
BlankScene ==
  [op |-> "none", root |-> <<>>, tree |-> [p \in ScenePaths |-> NONE],
   output |-> NoOutput, algorithm |-> DEFAULT_HASH_ALGORITHM,
   manifest |-> EmptyMap, patterns |-> <<>>, outFile |-> Absent,
   otherRoot |-> <<>>, other |-> EmptyMap,
   raised |-> FALSE, changes |-> NoDiff,
   path |-> <<>>, ignored |-> FALSE,
   name |-> <<>>, before |-> <<>>]

-----------------------------------------------------------------------------
(* The two manifests: initial state *)

\* The set-up of the tests: the same files are copied under both roots,
\* S = Manifest(file, root=SrcRoot) and T = Manifest(<root>/MANIFEST_NAME,
\* root=tgtRoot, ignore=...) are constructed and each is refreshed.
InitSource ==
  generate(SrcRoot, SeedTree, Absent, TRUE, <<SLASH>> \o MANIFEST_NAME,
           SrcRoot, DEFAULT_HASH_ALGORITHM, load_ignore_patterns(<<>>))

InitTarget(t) ==
  generate(t.root, SeedTree, load(Absent).file, TRUE, Join(t.root, MANIFEST_NAME),
           t.root, DEFAULT_HASH_ALGORITHM, load_ignore_patterns(t.lines))

Init ==
  /\ srcTree = SeedTree
  /\ tgtTree = SeedTree
  /\ srcManifest = Dict(InitSource.map)
  /\ \E t \in Targets :
       /\ tgtRoot = t.root
       /\ tgtIgnore = InitTarget(t).patterns
       /\ tgtManifest = Dict(InitTarget(t).map)
       /\ tgtFile = save(Dict(InitTarget(t).map))
  /\ envOps = 0
  /\ last = BlankLast
  /\ scene = BlankScene

-----------------------------------------------------------------------------
(* Steps made from outside the program: the files of both trees and T's  *)
(* backing file are edited as the tests edit them (unlink, write_text).   *)

\* The tree with path p replaced by node v: the directories above a new
\* node exist, and nothing stays below a path that is no directory.
SetNode(tree, p, v) ==
  [q \in RelPaths |->
     IF q = p THEN v
     ELSE IF IsAncestor(q, p) /\ v # NONE THEN DIR
     ELSE IF IsAncestor(p, q) /\ v # DIR THEN NONE
     ELSE tree[q]]

EnvSetSource(p, v) ==
  /\ Idle
  /\ envOps < MaxEnvOps
  /\ SetNode(srcTree, p, v) # srcTree
  /\ srcTree' = SetNode(srcTree, p, v)
  /\ envOps' = envOps + 1
  /\ last' = BlankLast
  /\ UNCHANGED <<tgtTree, srcManifest, tgtManifest, tgtFile, tgtIgnore, tgtRoot, scene>>

EnvSetTarget(p, v) ==
  /\ Idle
  /\ envOps < MaxEnvOps
  /\ SetNode(tgtTree, p, v) # tgtTree
  /\ tgtTree' = SetNode(tgtTree, p, v)
  /\ envOps' = envOps + 1
  /\ last' = BlankLast
  /\ UNCHANGED <<srcTree, srcManifest, tgtManifest, tgtFile, tgtIgnore, tgtRoot, scene>>

\* T's backing file is deleted or overwritten with a text.
BackingEdits == {Absent, FileOf(EmptyText), FileOf(BadJsonText), FileOf(ListText),
                 FileOf(NullText)}

EnvSetBacking(f) ==
  /\ Idle
  /\ envOps < MaxEnvOps
  /\ f # tgtFile
  /\ tgtFile' = f
  /\ envOps' = envOps + 1
  /\ last' = BlankLast
  /\ UNCHANGED <<srcTree, tgtTree, srcManifest, tgtManifest, tgtIgnore, tgtRoot, scene>>

-----------------------------------------------------------------------------
(* Calls *)

\* T.load()
Load ==
  LET r == load(tgtFile)
  IN /\ Idle \/ last.op = "save"
     /\ tgtManifest' = r.manifest
     /\ tgtFile' = r.file
     /\ last' = [Called("load") EXCEPT
                   !.tgtFile0 = tgtFile,
                   !.afterSave = (last.op = "save"),
                   !.saved = IF last.op = "save" THEN last.saved ELSE EmptyDict,
                   !.savedOver = IF last.op = "save" THEN last.tgtFile0 ELSE Absent]
     /\ UNCHANGED <<srcTree, tgtTree, srcManifest, tgtIgnore, tgtRoot, scene, envOps>>

\* T.save()
Save ==
  /\ Idle
  /\ tgtFile' = save(tgtManifest)
  /\ last' = [Called("save") EXCEPT !.saved = tgtManifest, !.tgtFile0 = tgtFile]
  /\ UNCHANGED <<srcTree, tgtTree, srcManifest, tgtManifest, tgtIgnore, tgtRoot, scene, envOps>>

\* Manifest.refresh of T: generate over T.root with T's own ignore object
\* and backing file, which is rewritten; T.manifest is the mapping generated.
RefreshTarget ==
  LET g == generate(tgtRoot, tgtTree, tgtFile, TRUE, Join(tgtRoot, MANIFEST_NAME),
                    tgtRoot, DEFAULT_HASH_ALGORITHM, tgtIgnore)
  IN /\ Idle
     /\ tgtManifest' = Dict(g.map)
     /\ tgtFile' = save(Dict(g.map))
     /\ tgtIgnore' = g.patterns
     /\ last' = [Called("refresh") EXCEPT !.tgtTree0 = tgtTree, !.result = g.map]
     /\ UNCHANGED <<srcTree, tgtTree, srcManifest, tgtRoot, scene, envOps>>

\* Manifest.refresh of S: S.manifest is the mapping generated over the
\* source tree (no ignore file: the patterns are MANIFEST_NAME alone).
RefreshSource ==
  LET g == generate(SrcRoot, srcTree, Absent, TRUE, <<SLASH>> \o MANIFEST_NAME,
                    SrcRoot, DEFAULT_HASH_ALGORITHM, load_ignore_patterns(<<>>))
  IN /\ Idle
     /\ srcManifest' = Dict(g.map)
     /\ last' = [Called("refreshSource") EXCEPT !.srcTree0 = srcTree, !.result = g.map]
     /\ UNCHANGED <<srcTree, tgtTree, tgtManifest, tgtFile, tgtIgnore, tgtRoot, scene, envOps>>

\* Manifest.generate(T.root): no manifest file is given, the ignore object
\* is built from the directory's (missing) ignore file.  Nothing is written.
GenerateTarget ==
  LET g == generate(tgtRoot, tgtTree, tgtFile, FALSE, <<>>, tgtRoot,
                    DEFAULT_HASH_ALGORITHM, load_ignore_patterns(<<>>))
      synced == last.op = "sync" /\ ~last.dry /\ ~last.raised
  IN /\ Idle \/ synced
     /\ last' = IF synced
                  THEN [last EXCEPT !.op = "generate", !.result = g.map,
                                    !.afterSync = TRUE]
                  ELSE [Called("generate") EXCEPT !.tgtTree0 = tgtTree, !.result = g.map]
     /\ UNCHANGED <<srcTree, tgtTree, srcManifest, tgtManifest, tgtFile, tgtIgnore,
                    tgtRoot, scene, envOps>>

\* The target Manifest a call works on: the object T itself, or, for a
\* path argument, a new object Manifest(path): loaded from the backing
\* file, with the patterns of the root's (missing) ignore file.  T is not
\* touched by what is done to the new object; the backing file is the
\* same file.
Resolve(byPath) ==
  IF byPath
    THEN [manifest |-> load(tgtFile).manifest, file |-> load(tgtFile).file,
          patterns |-> load_ignore_patterns(<<>>)]
    ELSE [manifest |-> tgtManifest, file |-> tgtFile, patterns |-> tgtIgnore]

\* S.diff(target): raises when a manifest is no dict (it has no items()).
Diff(byPath) ==
  LET t == Resolve(byPath)
      ok == IsDict(srcManifest) /\ IsDict(t.manifest)
  IN /\ Idle
     /\ tgtFile' = t.file
     /\ last' = [CalledOnAll("diff") EXCEPT
                   !.byPath = byPath, !.raised = ~ok, !.used = t.manifest,
                   !.object = t.manifest, !.objectIgnore = t.patterns,
                   !.diff = IF ok THEN diff(srcManifest.map, t.manifest.map) ELSE NoDiff]
     /\ UNCHANGED <<srcTree, tgtTree, srcManifest, tgtManifest, tgtIgnore, tgtRoot,
                    scene, envOps>>

\* S.patch(target, output_patch_file), the output lying outside both
\* trees: the diff, then the patch file holding it.  A diff that raises
\* leaves no patch file.
Patch(byPath) ==
  LET t == Resolve(byPath)
      ok == IsDict(srcManifest) /\ IsDict(t.manifest)
      d == IF ok THEN diff(srcManifest.map, t.manifest.map) ELSE NoDiff
  IN /\ Idle
     /\ tgtFile' = t.file
     /\ last' = [CalledOnAll("patch") EXCEPT
                   !.byPath = byPath, !.raised = ~ok, !.used = t.manifest,
                   !.object = t.manifest, !.objectIgnore = t.patterns,
                   !.diff = d,
                   !.patchFile = IF ok THEN [exists |-> TRUE, doc |-> d] ELSE NoSidecar]
     /\ UNCHANGED <<srcTree, tgtTree, srcManifest, tgtManifest, tgtIgnore, tgtRoot,
                    scene, envOps>>

\* T.diff(S), the call with the two Manifest objects swapped; made right
\* after S.diff(T) it keeps that call's record beside its own result.
DiffBack ==
  LET ok == IsDict(srcManifest) /\ IsDict(tgtManifest)
      after == last.op = "diff" /\ ~last.byPath /\ ~last.raised
      mine == IF ok THEN diff(tgtManifest.map, srcManifest.map) ELSE NoDiff
  IN /\ Idle \/ after
     /\ last' = IF after
                  THEN [last EXCEPT !.op = "diffBack", !.afterDiff = TRUE, !.back = mine]
                  ELSE [CalledOnAll("diffBack") EXCEPT
                          !.raised = ~ok, !.used = tgtManifest, !.back = mine]
     /\ UNCHANGED <<srcTree, tgtTree, srcManifest, tgtManifest, tgtFile, tgtIgnore,
                    tgtRoot, scene, envOps>>

\* T.changed(): the manifest is loaded again from the backing file, then
\* compared with the target tree.  It raises when what was loaded is no
\* dict, or a recorded path is a directory.
ChangedTarget ==
  LET r == load(tgtFile)
      c == IF IsDict(r.manifest)
             THEN changed(tgtRoot, tgtTree, r.file, r.manifest.map, tgtIgnore)
             ELSE [raised |-> TRUE, changes |-> NoDiff]
  IN /\ Idle
     /\ tgtManifest' = r.manifest
     /\ tgtFile' = r.file
     /\ last' = [Called("changed") EXCEPT
                   !.tgtTree0 = tgtTree, !.tgtFile0 = tgtFile, !.inMemory = tgtManifest,
                   !.used = r.manifest, !.raised = c.raised, !.changes = c.changes]
     /\ UNCHANGED <<srcTree, tgtTree, srcManifest, tgtIgnore, tgtRoot, scene, envOps>>

\* S.pzip(target, output_zip_file), the output lying outside both trees:
\* the diff, then the archive.  A diff that raises leaves no archive.
Pzip(byPath) ==
  LET t == Resolve(byPath)
      ok == IsDict(srcManifest) /\ IsDict(t.manifest)
      d == IF ok THEN diff(srcManifest.map, t.manifest.map) ELSE NoDiff
      z == IF ok THEN pzip(d, srcTree)
           ELSE [raised |-> TRUE, archive |-> NoArchive, sidecar |-> NoSidecar]
  IN /\ Idle
     /\ tgtFile' = t.file
     /\ last' = [CalledOnAll("pzip") EXCEPT
                   !.byPath = byPath, !.raised = z.raised, !.used = t.manifest,
                   !.object = t.manifest, !.objectIgnore = t.patterns,
                   !.diff = d, !.archive = z.archive, !.sidecar = z.sidecar]
     /\ UNCHANGED <<srcTree, tgtTree, srcManifest, tgtManifest, tgtIgnore, tgtRoot,
                    scene, envOps>>

\* S.sync(target, dry_run): the diff, the two loops and, when not a dry
\* run, the refresh of the target manifest.  An exception leaves the
\* target as the loops left it, without the refresh.  The Manifest
\* refreshed and returned is T, or the object built from the path.
Sync(dry, byPath) ==
  LET t == Resolve(byPath)
      ok == IsDict(srcManifest) /\ IsDict(t.manifest)
      d == IF ok THEN diff(srcManifest.map, t.manifest.map) ELSE NoDiff
      run == IF ok THEN SyncLoops(d, srcTree, tgtRoot, tgtTree, dry)
             ELSE [SyncStart(tgtTree) EXCEPT !.raised = TRUE]
      g == generate(tgtRoot, run.tree, t.file, TRUE, Join(tgtRoot, MANIFEST_NAME),
                    tgtRoot, DEFAULT_HASH_ALGORITHM, t.patterns)
      refreshed == ~dry /\ ~run.raised
      object == IF refreshed THEN Dict(g.map) ELSE t.manifest
      objectIgnore == IF refreshed THEN g.patterns ELSE t.patterns
  IN /\ Idle
     /\ tgtTree' = run.tree
     /\ tgtManifest' = IF byPath THEN tgtManifest ELSE object
     /\ tgtFile' = IF refreshed THEN save(Dict(g.map)) ELSE t.file
     /\ tgtIgnore' = IF byPath THEN tgtIgnore ELSE objectIgnore
     /\ last' = [CalledOnAll("sync") EXCEPT
                   !.dry = dry, !.byPath = byPath, !.raised = run.raised,
                   !.used = t.manifest, !.diff = d,
                   !.object = object, !.objectIgnore = objectIgnore,
                   !.planned = DOMAIN d.added \cup DOMAIN d.changed \cup DOMAIN d.removed,
                   !.processed = run.processed, !.skipped = run.skipped,
                   !.copied = run.copied, !.deleted = run.deleted]
     /\ UNCHANGED <<srcTree, srcManifest, tgtRoot, scene, envOps>>

\* The caller drops the record of the call it made; the next call or
\* outside step starts from there.
Return ==
  /\ ~Idle
  /\ last' = BlankLast
  /\ UNCHANGED <<srcTree, tgtTree, srcManifest, tgtManifest, tgtFile, tgtIgnore,
                 tgtRoot, scene, envOps>>

Next ==
  \/ \E p \in RelPaths, v \in Writes : EnvSetSource(p, v)
  \/ \E p \in RelPaths, v \in Writes : EnvSetTarget(p, v)
  \/ \E f \in BackingEdits : EnvSetBacking(f)
  \/ Load
  \/ Save
  \/ RefreshTarget
  \/ RefreshSource
  \/ GenerateTarget
  \/ \E byPath \in BOOLEAN : Diff(byPath)
  \/ \E byPath \in BOOLEAN : Patch(byPath)
  \/ DiffBack
  \/ ChangedTarget
  \/ \E byPath \in BOOLEAN : Pzip(byPath)
  \/ \E dry \in BOOLEAN, byPath \in BOOLEAN : Sync(dry, byPath)
  \/ Return

Spec == Init /\ [][Next]_vars

\* The shape of the state.
TypeOK ==
  /\ TreeOK(srcTree) /\ TreeOK(tgtTree)
  /\ srcManifest.kind = "dict"
  /\ tgtManifest.kind \in {"dict", "list", "null"}
  /\ tgtRoot \in TgtRoots
  /\ envOps \in 0..MaxEnvOps

-----------------------------------------------------------------------------
(* A directory on its own: calls *)

\* The two manifests stand still while a directory on its own is looked at.
MainAtRest ==
  UNCHANGED <<srcTree, tgtTree, srcManifest, tgtManifest, tgtFile, tgtIgnore,
              tgtRoot, envOps, last>>

\* A directory with its files and nothing called yet, or a
\* ManifestlyIgnore object holding the patterns of an ignore file.
SceneStarts ==
  { [BlankScene EXCEPT !.op = "directory", !.root = r, !.tree = t] :
      r \in TgtRoots, t \in SceneTrees }
  \cup
  { [BlankScene EXCEPT !.op = "ignore", !.patterns = load_ignore_patterns(lines)] :
      lines \in IgnoreFiles }

SceneInit ==
  /\ srcTree = SeedTree
  /\ tgtTree = SeedTree
  /\ srcManifest = Dict(InitSource.map)
  /\ tgtRoot = <<"/", "t">>
  /\ tgtIgnore = load_ignore_patterns(<<>>)
  /\ tgtManifest = EmptyDict
  /\ tgtFile = Absent
  /\ envOps = 0
  /\ last = BlankLast
  /\ scene \in SceneStarts

\* The manifest file of the scene when it is <root>/MANIFEST_NAME; a
\* manifest file of another name in the root is a file of the tree, and one outside
\* the root is not seen by fs.find.
SceneBacking ==
  IF scene.output.given /\ scene.output.path = Join(scene.root, MANIFEST_NAME)
    THEN scene.outFile ELSE Absent

\* The tree after generate has written the text of its manifest file.
TreeWithOutput(tree, root, out, text) ==
  IF out.given /\ \E n \in OtherNames : out.path = Join(root, n)
    THEN [tree EXCEPT ![OutputBasename(out.path)] = Bytes(text)] ELSE tree

\* Manifest.generate(root, manifest_file=out, hash_algorithm=alg): the
\* ignore object is ManifestlyIgnore(default_ignore_file(root)), the
\* manifest file is written after the walk.  When the ignore object
\* cannot be built the call raises before anything is walked or written.
SceneGenerate(out, alg) ==
  /\ scene.op = "directory"
  /\ out \in OutputsOf(scene.root)
  /\ LET ig == IgnoreOf(scene.tree)
         g == generate(scene.root, scene.tree, Absent, out.given, out.path,
                       scene.root, alg, ig.patterns)
     IN scene' = IF ig.raised
                   THEN [scene EXCEPT !.op = "generate", !.output = out,
                                      !.algorithm = alg, !.raised = TRUE]
                   ELSE [scene EXCEPT
                           !.op = "generate", !.output = out, !.algorithm = alg,
                           !.manifest = g.map, !.patterns = g.patterns,
                           !.outFile = IF out.given THEN save(Dict(g.map)) ELSE Absent,
                           !.tree = TreeWithOutput(scene.tree, scene.root, out,
                                                   json_dump(Dict(g.map)))]
  /\ MainAtRest

\* refresh() on the Manifest generate returned: generate again with the
\* Manifest's own manifest file, root and ignore object, and the default
\* algorithm.  The walk reads the manifest file as generate left it; the
\* file is rewritten after the walk.
SceneRefresh ==
  /\ scene.op = "generate" /\ ~scene.raised
  /\ LET g == generate(scene.root, scene.tree, SceneBacking, scene.output.given,
                       scene.output.path, scene.root, DEFAULT_HASH_ALGORITHM,
                       scene.patterns)
     IN scene' = [scene EXCEPT
                    !.op = "refresh",
                    !.manifest = g.map, !.patterns = g.patterns,
                    !.outFile = IF scene.output.given THEN save(Dict(g.map))
                                ELSE Absent,
                    !.tree = TreeWithOutput(scene.tree, scene.root, scene.output,
                                            json_dump(Dict(g.map)))]
  /\ MainAtRest

\* Manifest(output, root=root).changed(): a Manifest loaded from the
\* manifest file generate or refresh wrote, with the ignore object its
\* constructor builds from the root's ignore file.
SceneChanged ==
  /\ scene.op \in {"generate", "refresh"} /\ ~scene.raised
  /\ scene.output.given
  /\ LET loaded == load(scene.outFile).manifest
         ig == IgnoreOf(scene.tree)
         c == IF ig.raised THEN [raised |-> TRUE, changes |-> NoDiff]
              ELSE changed(scene.root, scene.tree, SceneBacking, loaded.map,
                           ig.patterns)
     IN scene' = [scene EXCEPT !.op = "changed", !.raised = c.raised,
                               !.changes = c.changes]
  /\ MainAtRest

\* The same files copied under another root and generated there.
SceneGenerateElsewhere(root) ==
  /\ scene.op = "generate" /\ ~scene.raised
  /\ ~scene.output.given
  /\ root # scene.root
  /\ LET ig == IgnoreOf(scene.tree)
         g == generate(root, scene.tree, Absent, FALSE, <<>>, root,
                       scene.algorithm, ig.patterns)
     IN scene' = [scene EXCEPT !.op = "elsewhere", !.otherRoot = root,
                               !.raised = ig.raised,
                               !.other = IF ig.raised THEN EmptyMap ELSE g.map]
  /\ MainAtRest

\* ManifestlyIgnore.should_ignore(path)
SceneShouldIgnore(path) ==
  /\ scene.op = "ignore"
  /\ scene' = [scene EXCEPT !.op = "should_ignore", !.path = path,
                            !.ignored = should_ignore(scene.patterns, path)]
  /\ MainAtRest

\* ManifestlyIgnore.add_ignore_pattern(name)
SceneAddPattern(name) ==
  /\ scene.op = "ignore"
  /\ scene' = [scene EXCEPT !.op = "add", !.name = name,
                            !.before = scene.patterns,
                            !.patterns = add_ignore_pattern(scene.patterns, name)]
  /\ MainAtRest

\* add_ignore_pattern called once more with the same name.
SceneAddPatternAgain ==
  /\ scene.op = "add"
  /\ scene' = [scene EXCEPT !.op = "addAgain",
                            !.before = scene.patterns,
                            !.patterns = add_ignore_pattern(scene.patterns, scene.name)]
  /\ MainAtRest

SceneNext ==
  \/ \E out \in UNION {OutputsOf(r) : r \in TgtRoots}, alg \in Algorithms :
       SceneGenerate(out, alg)
  \/ SceneRefresh
  \/ SceneChanged
  \/ \E root \in TgtRoots : SceneGenerateElsewhere(root)
  \/ \E path \in AskedPaths : SceneShouldIgnore(path)
  \/ \E name \in AddedNames : SceneAddPattern(name)
  \/ SceneAddPatternAgain

SceneSpec == SceneInit /\ [][SceneNext]_vars

\* The shape of a scene.
SceneTypeOK ==
  /\ scene.op \in {"directory", "generate", "refresh", "changed", "elsewhere",
                   "ignore", "should_ignore", "add", "addAgain"}
  /\ scene.root \in TgtRoots \cup {<<>>}
  /\ DOMAIN scene.tree = ScenePaths
  /\ scene.ignored \in BOOLEAN

-----------------------------------------------------------------------------
(* What the claims speak of *)

\* The digest of every regular file of a tree, by relative path.
TreeDigests(tree) ==
  [p \in {q \in RelPaths : tree[q] \in Contents} |->
     calculate_hash(tree[p], DEFAULT_HASH_ALGORITHM)]

\* The digest of every regular file of a tree that the patterns do not
\* exclude, the pattern being matched against the path relative to the root.
GroundTruth(tree, patterns) ==
  [p \in {q \in RelPaths : tree[q] \in Contents /\ ~should_ignore(patterns, q)} |->
     calculate_hash(tree[p], DEFAULT_HASH_ALGORITHM)]

\* A call of sync that got as far as its loops.
SyncCall == last.op = "sync" /\ IsDict(last.used)
RealSync == SyncCall /\ ~last.dry

\* The added and changed paths of the last diff.
ToCopy == DOMAIN last.diff.added \cup DOMAIN last.diff.changed

\* The added and changed paths whose source file did not exist at the copy.
Vanished == {p \in ToCopy : last.srcTree0[p] = NONE}

-----------------------------------------------------------------------------
(* C1 *)

\* C1: a dry-run sync mutates nothing at the target: after the call the
\* target tree holds the same files and the same directories as before, and
\* the backing file of a target Manifest the same content.
C1_DryRunMutatesNothing ==
  last.op = "sync" /\ last.dry =>
    /\ tgtTree = last.tgtTree0
    /\ ~last.byPath => tgtFile = last.tgtFile0

\* A dry-run sync planned a copy into a directory the target lacked.
C1_DryRunPlannedCopy ==
  /\ SyncCall /\ last.dry /\ ~last.raised
  /\ \E p \in ToCopy : p = <<"d", "/", "a">> /\ last.tgtTree0[<<"d">>] = NONE

-----------------------------------------------------------------------------
(* C2 *)

\* generate(target.root) was called right after a non-dry-run sync that
\* returned.
RegeneratedAfterSync == last.op = "generate" /\ last.afterSync

\* C2: after a non-dry-run sync, the manifest generate(target.root)
\* returns is the source manifest without the paths whose source file was
\* missing when sync came to copy it, whatever the starting state.
C2_RegeneratedIsSourceRestricted ==
  RegeneratedAfterSync =>
    last.result = [p \in DOMAIN last.srcManifest0.map \ Vanished |->
                     last.srcManifest0.map[p]]

-----------------------------------------------------------------------------
(* C3 *)

\* C3: after a non-dry-run sync returns, the target manifest in memory (the
\* Manifest the sync worked on and returns) and the one persisted in its
\* backing file both equal the digests of the files of the target tree
\* that the target's patterns do not exclude.
C3_TargetManifestIsGroundTruth ==
  RealSync /\ ~last.raised =>
    /\ last.object = Dict(GroundTruth(tgtTree, last.objectIgnore))
    /\ tgtFile.exists
    /\ json_loads(tgtFile.text) =
         [ok |-> TRUE, value |-> Dict(GroundTruth(tgtTree, last.objectIgnore))]

\* The same for a target root none of whose directories above the tree
\* matches a pattern.
C3_GroundTruthUnderPlainRoot ==
  RealSync /\ ~last.raised /\ tgtRoot = <<SLASH, "t">> =>
    /\ last.object = Dict(GroundTruth(tgtTree, last.objectIgnore))
    /\ tgtFile.exists
    /\ json_loads(tgtFile.text) =
         [ok |-> TRUE, value |-> Dict(GroundTruth(tgtTree, last.objectIgnore))]

-----------------------------------------------------------------------------
(* C4 *)

\* C4: a sync skips every added or changed path whose source file is
\* missing, without raising and without writing a file at that path, and
\* goes on to every other path it planned.
C4_VanishedSourceSkipped ==
  SyncCall /\ Vanished # {} =>
    /\ ~last.raised
    /\ Vanished \subseteq last.skipped
    /\ Vanished \cap last.copied = {}
    /\ last.processed = last.planned

-----------------------------------------------------------------------------
(* C5 *)

\* The parent directory of every path the sync planned to copy could be
\* ensured at the target.
ParentsEnsured ==
  \A p \in ToCopy : fs_mkdirs(tgtRoot, last.tgtTree0, fs_parent(Join(tgtRoot, p))).ok

\* C5, for the copies and deletes themselves: a non-dry-run sync whose
\* parent directories could all be ensured does not abort, and goes through
\* every added, changed and removed path.
C5_FailureNotFatal ==
  RealSync /\ ParentsEnsured =>
    /\ ~last.raised
    /\ last.processed = last.planned

-----------------------------------------------------------------------------
(* C6 *)

\* C6: S.diff(T) returns as added the paths of S missing from T with S's
\* digest, as changed the paths of both whose digests differ with S's
\* digest, as removed the paths of T missing from S with T's digest; both
\* manifests and both trees are as before, and so is the backing file
\* unless the target was given as the path of a missing file.
C6_DiffAsDefined ==
  last.op = "diff" /\ ~last.raised =>
    LET S == last.srcManifest0.map
        T == last.used.map
        d == last.diff
    IN /\ \A k \in DOMAIN S \cup DOMAIN T :
            /\ k \in DOMAIN d.added <=> k \in DOMAIN S /\ k \notin DOMAIN T
            /\ k \in DOMAIN d.changed <=>
                 k \in DOMAIN S /\ k \in DOMAIN T /\ S[k] # T[k]
            /\ k \in DOMAIN d.removed <=> k \in DOMAIN T /\ k \notin DOMAIN S
       /\ DOMAIN d.added \cup DOMAIN d.changed \cup DOMAIN d.removed
            \subseteq DOMAIN S \cup DOMAIN T
       /\ \A k \in DOMAIN d.added : d.added[k] = S[k]
       /\ \A k \in DOMAIN d.changed : d.changed[k] = S[k]
       /\ \A k \in DOMAIN d.removed : d.removed[k] = T[k]
       /\ srcManifest = last.srcManifest0
       /\ tgtManifest = last.inMemory /\ tgtIgnore = last.ignore0
       /\ last.object = last.used
       /\ srcTree = last.srcTree0
       /\ tgtTree = last.tgtTree0
       /\ ~last.byPath \/ last.tgtFile0.exists => tgtFile = last.tgtFile0

\* A diff of two Manifest objects found an added, a changed and a removed
\* path.
C6_DiffFoundAllThree ==
  /\ last.op = "diff" /\ ~last.raised /\ ~last.byPath
  /\ last.diff.added # EmptyMap
  /\ last.diff.changed # EmptyMap
  /\ last.diff.removed # EmptyMap

-----------------------------------------------------------------------------
(* C7 *)

\* C7: the paths S.diff(T) reports as added are the paths T.diff(S) reports
\* as removed, and both report them with S's digest.
C7_AddedIsRemovedSwapped ==
  last.op = "diffBack" /\ last.afterDiff /\ ~last.raised =>
    /\ DOMAIN last.diff.added = DOMAIN last.back.removed
    /\ \A k \in DOMAIN last.diff.added :
         /\ last.diff.added[k] = last.srcManifest0.map[k]
         /\ last.back.removed[k] = last.srcManifest0.map[k]

\* Both diffs were taken and S had a path T lacked and a path T had.
C7_BothDiffsTaken ==
  /\ last.op = "diffBack" /\ last.afterDiff /\ ~last.raised
  /\ last.diff.added # EmptyMap
  /\ DOMAIN last.srcManifest0.map \cap DOMAIN last.used.map # {}

-----------------------------------------------------------------------------
(* C8 *)

\* C8: a load right after a save gives back the manifest that was saved.
C8_SaveLoadRoundTrip ==
  last.op = "load" /\ last.afterSave => tgtManifest = last.saved

\* A manifest of two entries was saved over a backing file that held
\* something else, and loaded.
C8_SavedTwoEntries ==
  /\ last.op = "load" /\ last.afterSave
  /\ IsDict(last.saved)
  /\ Cardinality(DOMAIN last.saved.map) = 2
  /\ last.savedOver.exists
  /\ last.savedOver.text # json_dump(last.saved)

-----------------------------------------------------------------------------
(* C9 *)

\* The text is the serialisation of a mapping from paths to digests.
WellFormedObject(text) == json_loads(text).ok /\ IsDict(json_loads(text).value)

\* C9: a load from a backing file whose content is empty or is no
\* well-formed object gives the empty mapping.
C9_LoadOfMalformedIsEmpty ==
  last.op = "load" /\ last.tgtFile0.exists /\ ~WellFormedObject(last.tgtFile0.text) =>
    tgtManifest = EmptyDict

-----------------------------------------------------------------------------
(* C10 *)

\* C10: a load whose backing file is missing gives the empty mapping and
\* leaves the backing file holding the empty object; after any load the
\* backing file exists.
C10_LoadCreatesBackingFile ==
  last.op = "load" =>
    /\ tgtFile.exists
    /\ ~last.tgtFile0.exists =>
         /\ tgtManifest = EmptyDict
         /\ tgtFile = FileOf(<<TokLBrace, TokRBrace>>)

\* A load found no backing file.
C10_LoadedWithoutBackingFile ==
  last.op = "load" /\ ~last.tgtFile0.exists

-----------------------------------------------------------------------------
(* C19 *)

\* C19: a non-dry-run sync writes a file of the target tree only at an
\* added or changed path and deletes one only at a removed path; every
\* other file of the target tree is there as before with the content it
\* had, and the source tree and the source manifest are as before.
C19_SyncFrame ==
  RealSync =>
    /\ \A p \in RelPaths :
         /\ tgtTree[p] \in Contents /\ tgtTree[p] # last.tgtTree0[p] => p \in ToCopy
         /\ last.tgtTree0[p] \in Contents /\ tgtTree[p] \notin Contents =>
              p \in DOMAIN last.diff.removed
         /\ p \notin ToCopy \cup DOMAIN last.diff.removed /\ last.tgtTree0[p] \in Contents =>
              tgtTree[p] = last.tgtTree0[p]
    /\ srcTree = last.srcTree0
    /\ srcManifest = last.srcManifest0

\* A sync copied a file and left alone a file that neither manifest
\* recorded.
C19_SyncCopiedBesideUnrecorded ==
  /\ RealSync /\ ~last.raised
  /\ last.copied # {}
  /\ \E p \in RelPaths :
       /\ p \notin DOMAIN last.srcManifest0.map \cup DOMAIN last.used.map
       /\ last.tgtTree0[p] \in Contents
       /\ tgtTree[p] = last.tgtTree0[p]

-----------------------------------------------------------------------------
(* C11 *)

\* A manifest produced by generate or by refresh is in the scene (the call
\* returned).
Produced == scene.op \in {"generate", "refresh"} /\ ~scene.raised

\* The file name of the scene's manifest file.
OwnName == OutputBasename(scene.output.path)

\* C11: in a manifest produced by generate or refresh no key begins with
\* '/', no key is the manifest's own file name and no key is the ignore
\* file's name.
C11_SelfExclusion ==
  Produced =>
    \A k \in DOMAIN scene.manifest :
      /\ k # <<>> /\ Head(k) # SLASH
      /\ k # MANIFEST_NAME
      /\ scene.output.given => k # OwnName
      /\ k # MANIFESTLY_IGNORE

\* The first half of it: no key begins with '/'.
C11_KeysRelative ==
  Produced => \A k \in DOMAIN scene.manifest : k # <<>> /\ Head(k) # SLASH

\* The manifest's own file is left out when it is named MANIFEST_NAME or
\* its name, taken as a pattern, matches itself; a refresh records its own
\* manifest file when the name reads as a character class.
C11_OwnFileLeftOutWhenNameMatchesItself ==
  Produced /\ scene.output.given /\ fnmatch(OwnName, OwnName) =>
    \A k \in DOMAIN scene.manifest : k # MANIFEST_NAME /\ k # OwnName

\* A refresh recorded its own manifest file.
C11_RefreshRecordedOwnFile ==
  /\ scene.op = "refresh" /\ ~scene.raised
  /\ scene.output.path = Join(scene.root, BRACKET_NAME)
  /\ BRACKET_NAME \in DOMAIN scene.manifest

\* A generate recorded the ignore file.
C11_GenerateRecordedIgnoreFile ==
  /\ scene.op = "generate" /\ ~scene.raised
  /\ MANIFESTLY_IGNORE \in DOMAIN scene.manifest

-----------------------------------------------------------------------------
(* C12 *)

\* C12: changed() on a Manifest loaded from the manifest file that
\* generate or refresh has just written, the tree not touched since,
\* returns without raising and reports nothing added, removed or changed,
\* whatever the algorithm and the manifest file.
C12_NoChangesAfterGenerate ==
  scene.op = "changed" => ~scene.raised /\ scene.changes = NoDiff

\* What does hold: nothing is reported when the digests on file were taken
\* with the default algorithm and the manifest file is not a file of the
\* tree under another name than MANIFEST_NAME.
C12_NoChangesWithDefaults ==
  /\ scene.op = "changed"
  /\ \A n \in OtherNames : scene.output.path # Join(scene.root, n)
  /\ \A k \in DOMAIN scene.manifest : scene.manifest[k][1] = DEFAULT_HASH_ALGORITHM
  => ~scene.raised /\ scene.changes = NoDiff

-----------------------------------------------------------------------------
(* C13 *)

\* C13: the same files and the same ignore file under two roots give equal
\* manifests, and their diff is empty.
C13_RootIndependent ==
  scene.op = "elsewhere" =>
    /\ scene.other = scene.manifest
    /\ diff(scene.manifest, scene.other) = NoDiff

\* What does hold: the manifests are equal when no pattern of the ignore
\* file matches the name of a directory above either root.
C13_EqualWhenRootsUnmatched ==
  /\ scene.op = "elsewhere"
  /\ ~scene.raised
  /\ \A r \in {scene.root, scene.otherRoot} :
       ~should_ignore(IgnoreOf(scene.tree).patterns, r)
  => /\ scene.other = scene.manifest
     /\ diff(scene.manifest, scene.other) = NoDiff

-----------------------------------------------------------------------------
(* C14 *)

\* The positions of name the first j characters of a glob pattern can
\* reach: * takes any run of characters, ? takes one, any other character
\* takes itself.
RECURSIVE GlobReach(_, _, _)
GlobReach(name, pat, j) ==
  IF j = 0 THEN {0}
  ELSE LET prev == GlobReach(name, pat, j - 1)
       IN IF pat[j] = STAR
            THEN {i \in 0..Len(name) : \E k \in prev : k <= i}
            ELSE {i \in 1..Len(name) :
                    i - 1 \in prev /\ (pat[j] = QMARK \/ pat[j] = name[i])}

\* The glob pattern matches the whole of name.
GlobMatches(name, pat) == Len(name) \in GlobReach(name, pat, Len(pat))

\* A path with every backslash turned into '/'.
Normalized(path) ==
  [k \in 1..Len(path) |-> IF path[k] = BACKSLASH THEN SLASH ELSE path[k]]

\* The '/'-separated segments of a path: the runs without '/' that reach
\* from the start or a '/' to the end or a '/'.
SegmentsOf(path) ==
  { SubSeq(path, ij[1], ij[2]) :
      ij \in { pr \in (1..(Len(path) + 1)) \X (0..Len(path)) :
                 /\ pr[1] <= pr[2] + 1
                 /\ pr[1] = 1 \/ path[pr[1] - 1] = SLASH
                 /\ pr[2] = Len(path) \/ path[pr[2] + 1] = SLASH
                 /\ \A k \in pr[1]..pr[2] : path[k] # SLASH } }

\* A pattern without its leading and trailing '/'.
Stripped(pat) ==
  LET solid == {k \in 1..Len(pat) : pat[k] # SLASH}
  IN IF solid = {} THEN <<>>
     ELSE SubSeq(pat, CHOOSE k \in solid : \A l \in solid : k <= l,
                      CHOOSE k \in solid : \A l \in solid : l <= k)

\* Some pattern, stripped, glob-matches some segment of the normalized path.
SomeSegmentMatches(patterns, path) ==
  \E i \in 1..Len(patterns) : \E seg \in SegmentsOf(Normalized(path)) :
    GlobMatches(seg, Stripped(patterns[i]))

\* C14: should_ignore(path) is true exactly when some pattern, stripped of
\* its leading and trailing '/', glob-matches one '/'-separated segment of
\* the path with backslashes normalized; the pattern build excludes
\* build/output.txt, src/build/x.txt and a file named build, and does not
\* exclude buildings/x.txt.
C14_SegmentGlobMatch ==
  scene.op = "should_ignore" =>
    /\ scene.ignored = SomeSegmentMatches(scene.patterns, scene.path)
    /\ scene.patterns = load_ignore_patterns(<<BUILD>>) =>
         /\ scene.path \in {BUILD_OUTPUT_TXT, SRC_BUILD_X_TXT, BUILD} => scene.ignored
         /\ scene.path = BUILDINGS_X_TXT => ~scene.ignored

\* should_ignore excluded src\build\x.txt under the pattern /build/: the
\* backslashes were normalized, the pattern stripped, and the second
\* segment matched.
C14_IgnoredInnerSegment ==
  /\ scene.op = "should_ignore"
  /\ scene.path = SRC_BUILD_X_TXT_WIN
  /\ scene.patterns = <<MANIFEST_NAME, <<SLASH>> \o BUILD \o <<SLASH>> >>
  /\ scene.ignored

-----------------------------------------------------------------------------
(* C18 *)

\* The list holds no entry twice.
NoDuplicates(list) ==
  \A i, j \in 1..Len(list) : list[i] = list[j] => i = j

\* C18: add_ignore_pattern called a second time with the same name leaves
\* the list as the first call left it, and a call adds no entry the list
\* already holds.
C18_AddIdempotent ==
  /\ scene.op = "addAgain" => scene.patterns = scene.before
  /\ scene.op \in {"add", "addAgain"} /\ NoDuplicates(scene.before) =>
       NoDuplicates(scene.patterns)

\* What does hold: the same for a name without a backslash.
C18_IdempotentWithoutBackslash ==
  (\A k \in 1..Len(scene.name) : scene.name[k] # BACKSLASH) =>
    /\ scene.op = "addAgain" => scene.patterns = scene.before
    /\ scene.op \in {"add", "addAgain"} /\ NoDuplicates(scene.before) =>
         NoDuplicates(scene.patterns)

-----------------------------------------------------------------------------
(* C15 *)

\* C15: the archive pzip writes has one member for every added or changed
\* path, holding the content of the source file, one more member holding
\* the diff, and no other member.
C15_ArchiveMembers ==
  last.op = "pzip" /\ ~last.raised =>
    /\ last.archive.exists /\ last.archive.finalized
    /\ \A p \in ToCopy :
         p \in DOMAIN last.archive.members /\ last.archive.members[p] = last.srcTree0[p]
    /\ \E aux \in DOMAIN last.archive.members \ ToCopy :
         /\ DOMAIN last.archive.members = ToCopy \cup {aux}
         /\ last.archive.members[aux] = last.diff

\* What the archive does hold: the added and changed paths with the source
\* content and nothing else; the diff is in the file '.manifestly.diff' of
\* the working directory.
C15_ArchiveHoldsFilesOnly ==
  last.op = "pzip" /\ ~last.raised =>
    /\ last.archive.exists /\ last.archive.finalized
    /\ DOMAIN last.archive.members = ToCopy
    /\ \A p \in ToCopy : last.archive.members[p] = last.srcTree0[p]
    /\ last.sidecar = [exists |-> TRUE, doc |-> last.diff]

-----------------------------------------------------------------------------
(* C16 *)

\* C16: when an added or changed path has no readable source file, pzip
\* raises and leaves no archive that opens as a complete one.
C16_NoPartialArchive ==
  last.op = "pzip" /\ IsDict(last.used) /\ (\E p \in ToCopy : last.srcTree0[p] \notin Contents) =>
    /\ last.raised
    /\ ~(last.archive.exists /\ last.archive.finalized)

-----------------------------------------------------------------------------
(* C17 *)

\* The manifest changed() reads back from the backing file.
Persisted == load(last.tgtFile0).manifest

\* What C17 says changed() returns for a recorded mapping and a tree.
ChangesOf(recorded, tree, patterns) ==
  [added |-> [p \in DOMAIN GroundTruth(tree, patterns) \ DOMAIN recorded |->
                GroundTruth(tree, patterns)[p]],
   removed |-> [p \in {q \in DOMAIN recorded : q \notin RelPaths \/ tree[q] = NONE} |->
                  recorded[p]],
   changed |-> [p \in {q \in DOMAIN recorded \cap RelPaths :
                         tree[q] \in Contents /\ TreeDigests(tree)[q] # recorded[q]} |->
                  TreeDigests(tree)[p]]]

\* C17: changed() returns, for the manifest persisted in the backing file
\* and the live tree, the recorded paths without a file as removed, the
\* recorded paths whose file has another digest as changed, the files not
\* recorded and not ignored as added; the three are disjoint, and what T
\* held in memory does not matter.
C17_ChangedClassifies ==
  last.op = "changed" /\ ~last.raised =>
    /\ last.changes = ChangesOf(Persisted.map, last.tgtTree0, tgtIgnore)
    /\ DOMAIN last.changes.added \cap DOMAIN last.changes.removed = {}
    /\ DOMAIN last.changes.added \cap DOMAIN last.changes.changed = {}
    /\ DOMAIN last.changes.removed \cap DOMAIN last.changes.changed = {}

\* The same for a target root none of whose directories above the tree
\* matches a pattern.
C17_ChangedUnderPlainRoot ==
  last.op = "changed" /\ ~last.raised /\ tgtRoot = <<SLASH, "t">> =>
    /\ last.changes = ChangesOf(Persisted.map, last.tgtTree0, tgtIgnore)
    /\ DOMAIN last.changes.added \cap DOMAIN last.changes.removed = {}
    /\ DOMAIN last.changes.added \cap DOMAIN last.changes.changed = {}
    /\ DOMAIN last.changes.removed \cap DOMAIN last.changes.changed = {}

====
